---- MODULE Spec2Model ----
(***************************************************************************)
(* Model of bsfh/parameters.py: the ProspectrParams class (descriptor      *)
(* list, theta index, parameter state, prior evaluation, observation       *)
(* ingestion and rescaling, labelling) and the plist serialization         *)
(* helpers.                                                                *)
(*                                                                         *)
(* Numbers are records [x, den, ln]: np.log applied ln times to the        *)
(* fraction x/den.  A descriptor's init (and an override value) is         *)
(* [scalar, v]: v holds the elements, scalar tells a Python scalar from an *)
(* array.  Python dicts are functions over a set of keys.  Python None in  *)
(* a dict-valued field is the record NoneVal.                              *)
(***************************************************************************)
EXTENDS Integers, Sequences, FiniteSets, TLC

\* ---------------------------------------------------------------- bounds
\* largest vector length N of a descriptor
MaxN == 2
\* longest theta vector a caller passes
MaxTheta == 2
\* how often np.log may be stacked on one value before add_obs is cut off
MaxLn == 2
\* longest descriptor list handed to write_plist
MaxDoc == 2

\* ---------------------------------------------------------------- values
V(n) == [x |-> n, den |-> 1, ln |-> 0]

\* np.log on one number
Log(v) == [v EXCEPT !.ln = @ + 1]

Scalar(n) == [scalar |-> TRUE, v |-> <<V(n)>>]

Array(s) == [scalar |-> FALSE, v |-> s]

\* np.log on a scalar or an array: elementwise
np_log(val) == [val EXCEPT !.v = [i \in DOMAIN val.v |-> Log(val.v[i])]]

\* np.atleast_1d: a scalar becomes a one-element array, an array is kept
np_atleast_1d(val) == val.v

NoneVal == [None |-> TRUE]

EmptyDict == [k \in {} |-> 0]

\* ------------------------------------------------------- class attributes
\* ProspectrParams.model_config: the class attribute; no method assigns it
model_config == <<>>

\* ------------------------------------------------------------------ state
VARIABLES
    config_list,    \* self.config_list: the descriptor list given to __init__
    run_params,     \* self.run_params
    _config_dict,   \* self._config_dict: name -> descriptor without its name
    params,         \* ProspectrParams.params: name -> array (class-level dict)
    theta_index,    \* self.theta_index: name -> <<start, end>>
    ndim,           \* self.ndim
    initial_theta,  \* self.initial_theta
    obs,            \* self.obs
    ndof,           \* self.ndof: <<>> while the attribute does not exist
    kwargs,         \* the keyword overrides of the last configure call
    op,             \* the last method called
    arg,            \* its argument: theta, or name_map (<<>> when it takes none)
    res,            \* "ok" or the exception it raised
    ret,            \* what it returned, as a sequence (<<>> when nothing)
    doc,            \* the descriptor list handed to write_plist / read back
    doc0,           \* that list as it was before the last write_plist
    views,          \* the names whose params array shares the memory of the
                    \* vector last handed to set_parameters (held in arg)
    other           \* the attributes of a second instance: <<>> when there
                    \* is none, else one record

vars == <<config_list, run_params, _config_dict, params, theta_index, ndim,
          initial_theta, obs, ndof, kwargs, op, arg, res, ret, doc, doc0,
          views, other>>

\* ------------------------------------------------------------ descriptors
\* one entry of config_list, after param_template (name, N, isfree, init,
\* prior_args) plus the prior_function callable, named by its func_name
Descriptor(name, N, isfree, init, pf, pa) ==
    [name |-> name, N |-> N, isfree |-> isfree, init |-> init,
     prior_function |-> pf, prior_args |-> pa]

\* the descriptor lists a caller builds: "a" (free, array init), "b" (fixed,
\* scalar init) and "spec_norm" (fixed, scalar init, with or without
\* prior_args), each present or not, in this order
OptA == {<<>>} \cup
    {<<Descriptor("a", n, TRUE, Array([i \in 1..n |-> V(i)]), "tophat",
                  [mini |-> Scalar(0), maxi |-> Scalar(9)])>> : n \in 1..MaxN}

OptB == {<<>>} \cup
    {<<Descriptor("b", n, FALSE, Scalar(3), "None", NoneVal)>> : n \in 1..MaxN}

OptS == {<<>>} \cup
    {<<Descriptor("spec_norm", 1, FALSE, Scalar(2), pf[1], pf[2])>> :
        pf \in {<<"None", NoneVal>>,
                <<"tophat", [low |-> Scalar(1), high |-> Scalar(4)]>>}}

ConfigLists == {a \o b \o s : a \in OptA, b \in OptB, s \in OptS}

\* run_params: a dict; add_obs reads two keys with default True
RunParamSets ==
    { EmptyDict,
      [normalize_spectrum |-> FALSE],
      [normalize_spectrum |-> FALSE, logify_spectrum |-> FALSE] }

\* dict.get(key, default)
Get(d, key, default) == IF key \in DOMAIN d THEN d[key] ELSE default

\* the keyword overrides a caller passes to configure: none, a fixed
\* parameter, a name no descriptor has
KwargsSet ==
    { EmptyDict,
      [b |-> Scalar(8)],
      [zz |-> Scalar(9)] }

\* the theta vectors a caller passes: (5), (5, 6), ...
Thetas == {[i \in 1..n |-> V(4 + i)] : n \in 0..MaxTheta}

\* ------------------------------------------------- list <-> dict helpers
\* p.pop('name') on one descriptor: what is left of it
PopName(p) == [f \in DOMAIN p \ {"name"} |-> p[f]]

HasName(p) == "name" \in DOMAIN p

\* plist_to_pdict without the deepcopy of line 226: the pops reach the
\* caller's list
plist_to_pdict_nocopy(inplist) ==
    IF \E i \in DOMAIN inplist : ~HasName(inplist[i])
    THEN [err |-> "KeyError", pdict |-> EmptyDict, inplist |-> inplist]
    ELSE LET names == {inplist[i].name : i \in DOMAIN inplist}
             last(n) == CHOOSE i \in DOMAIN inplist :
                           /\ inplist[i].name = n
                           /\ \A j \in DOMAIN inplist :
                                 inplist[j].name = n => j <= i
         IN  [err |-> "ok",
              pdict |-> [n \in names |-> PopName(inplist[last(n)])],
              inplist |-> [i \in DOMAIN inplist |-> PopName(inplist[i])]]

\* plist_to_pdict(inplist): the dict keyed by name (a later descriptor of the
\* same name replaces an earlier one), and the caller's list afterwards,
\* untouched because the pops act on a deep copy.  KeyError when a descriptor
\* has no 'name'.
plist_to_pdict(inplist) ==
    IF \E i \in DOMAIN inplist : ~HasName(inplist[i])
    THEN [err |-> "KeyError", pdict |-> EmptyDict, inplist |-> inplist]
    ELSE LET names == {inplist[i].name : i \in DOMAIN inplist}
             last(n) == CHOOSE i \in DOMAIN inplist :
                           /\ inplist[i].name = n
                           /\ \A j \in DOMAIN inplist :
                                 inplist[j].name = n => j <= i
         IN  [err |-> "ok",
              pdict |-> [n \in names |-> PopName(inplist[last(n)])],
              inplist |-> inplist]

\* pdict_to_plist on a list: a shallow copy of the list
pdict_to_plist(plist) == plist

\* the free_params property: the names of the free descriptors of
\* model_config (the class attribute, not config_list)
free_params ==
    LET fl == SelectSeq(pdict_to_plist(model_config), LAMBDA k : k.isfree)
    IN  [i \in DOMAIN fl |-> fl[i].name]

\* ------------------------------------------------------------ theta index
RECURSIVE MapThetaLoop(_, _, _, _)
\* the loop of map_theta over the free names still to place
MapThetaLoop(free, cd, count, idx) ==
    IF free = <<>>
    THEN [theta_index |-> idx, count |-> count]
    ELSE LET par == Head(free)
             rng == <<count, count + cd[par].N>>
         IN  MapThetaLoop(Tail(free), cd, count + cd[par].N,
                 [n \in DOMAIN idx \cup {par} |->
                     IF n = par THEN rng ELSE idx[n]])

\* map_theta with ndim taken as the number of registry entries
map_theta_len(free, cd) ==
    LET r == MapThetaLoop(free, cd, 0, EmptyDict)
    IN  [theta_index |-> r.theta_index, ndim |-> Cardinality(DOMAIN cd)]

\* map_theta: the new theta_index and ndim for a list of free names
map_theta(free, cd) ==
    LET r == MapThetaLoop(free, cd, 0, EmptyDict)
    IN  [theta_index |-> r.theta_index, ndim |-> r.count]

\* the theta property: zeros(ndim), then theta[start:end] = params[k] for
\* every entry of theta_index (numpy broadcasts a one-element array)
ThetaErr(pr, ti, nd) ==
    IF \E k \in DOMAIN ti : k \notin DOMAIN pr THEN "KeyError"
    ELSE IF \E k \in DOMAIN ti :
              LET w == (IF ti[k][2] < nd THEN ti[k][2] ELSE nd) - ti[k][1]
              IN  Len(pr[k]) # 1 /\ Len(pr[k]) # w
         THEN "ValueError"
         ELSE "ok"

theta_of(pr, ti, nd) ==
    [i \in 1..nd |->
        LET owners == {k \in DOMAIN ti : ti[k][1] < i /\ i <= ti[k][2]}
        IN  IF owners = {} THEN V(0)
            ELSE LET k == CHOOSE k \in owners : TRUE
                 IN  IF Len(pr[k]) = 1 THEN pr[k][1]
                     ELSE pr[k][i - ti[k][1]]]

\* self.theta in the current state
theta == theta_of(params, theta_index, ndim)


\* ------------------------------------------------------------- configure
\* lines 56-60 of configure: every registry entry's init, then every keyword
\* override, written into the params dict that is already there
configure_params(pr, cd, kw) ==
    LET p1 == [n \in DOMAIN pr \cup DOMAIN cd |->
                  IF n \in DOMAIN cd THEN np_atleast_1d(cd[n].init)
                  ELSE pr[n]]
    IN  [n \in DOMAIN p1 \cup DOMAIN kw |->
            IF n \in DOMAIN kw THEN np_atleast_1d(kw[n]) ELSE p1[n]]

\* the whole of configure(**kw) run on descriptor list cl and params dict pr:
\* the exception it ends with ("ok" for none) and every attribute it leaves.
\* `old` carries the attributes as they were, kept where an exception comes
\* before the assignment.
configure_result(cl, pr, kw, old) ==
    LET r  == plist_to_pdict(cl)
    IN  IF r.err # "ok"
        THEN [err |-> r.err, config_list |-> r.inplist,
              _config_dict |-> old._config_dict, params |-> pr,
              theta_index |-> old.theta_index, ndim |-> old.ndim,
              initial_theta |-> old.initial_theta]
        ELSE LET m  == map_theta(free_params, r.pdict)
                 p2 == configure_params(pr, r.pdict, kw)
                 e  == ThetaErr(p2, m.theta_index, m.ndim)
             IN  [err |-> e, config_list |-> r.inplist,
                  _config_dict |-> r.pdict, params |-> p2,
                  theta_index |-> m.theta_index, ndim |-> m.ndim,
                  initial_theta |->
                      IF e = "ok" THEN theta_of(p2, m.theta_index, m.ndim)
                      ELSE old.initial_theta]

\* the class attributes an instance starts from (lines 20-34)
ClassDefaults ==
    [_config_dict |-> EmptyDict, theta_index |-> EmptyDict, ndim |-> 0,
     initial_theta |-> <<>>]

Current ==
    [_config_dict |-> _config_dict, theta_index |-> theta_index,
     ndim |-> ndim, initial_theta |-> initial_theta]

\* __init__(run_params, config_list): stores both and calls configure()
Init ==
    \E cl \in ConfigLists, rp \in RunParamSets :
        LET c == configure_result(cl, EmptyDict, EmptyDict, ClassDefaults)
        IN  /\ run_params = rp
            /\ config_list = c.config_list
            /\ _config_dict = c._config_dict
            /\ params = c.params
            /\ theta_index = c.theta_index
            /\ ndim = c.ndim
            /\ initial_theta = c.initial_theta
            /\ obs = EmptyDict
            /\ ndof = <<>>
            /\ kwargs = EmptyDict
            /\ op = "__init__"
            /\ arg = <<>>
            /\ res = c.err
            /\ ret = <<>>
            /\ doc = <<>>
            /\ doc0 = <<>>
            /\ views = {}
            /\ other = <<>>

\* configure(**kw)
configure(kw) ==
    LET c == configure_result(config_list, params, kw, Current)
    IN  /\ config_list' = c.config_list
        /\ _config_dict' = c._config_dict
        /\ params' = c.params
        /\ theta_index' = c.theta_index
        /\ ndim' = c.ndim
        /\ initial_theta' = c.initial_theta
        /\ kwargs' = kw
        /\ op' = "configure"
        /\ arg' = <<>>
        /\ res' = c.err
        /\ ret' = <<>>
        /\ views' = IF c.err = "KeyError" THEN views
                    ELSE views \ (DOMAIN c._config_dict \cup DOMAIN kw)
        /\ UNCHANGED <<run_params, obs, ndof, doc, doc0, other>>

\* --------------------------------------------------------- set_parameters
\* set_parameters storing the vector under every name of params instead of
\* walking theta_index
set_parameters_all(pr, ti, nd, t) ==
    IF Len(t) # nd
    THEN [err |-> "AssertionError", params |-> pr, views |-> {}]
    ELSE [err |-> "ok", params |-> [k \in DOMAIN pr |-> t], views |-> {}]

\* set_parameters keeping, under every name of params, the caller's vector
\* itself (no copy), whatever its length
set_parameters_view(pr, ti, nd, t) ==
    [err |-> "ok", params |-> [k \in DOMAIN pr |-> t], views |-> DOMAIN pr]

\* set_parameters(t): the assert of line 86, then the loop over theta_index,
\* whose body names p, a name bound nowhere: the first entry raises NameError
\* before anything is stored
set_parameters_result(pr, ti, nd, t) ==
    IF Len(t) # nd
    THEN [err |-> "AssertionError", params |-> pr, views |-> {}]
    ELSE IF DOMAIN ti = {} THEN [err |-> "ok", params |-> pr, views |-> {}]
    ELSE [err |-> "NameError", params |-> pr, views |-> {}]

set_parameters(t) ==
    LET r == set_parameters_result(params, theta_index, ndim, t)
    IN  /\ params' = r.params
        /\ op' = "set_parameters"
        /\ arg' = t
        /\ res' = r.err
        /\ ret' = <<>>
        /\ views' = r.views
        /\ UNCHANGED <<config_list, run_params, _config_dict, theta_index,
                       ndim, initial_theta, obs, ndof, kwargs, doc, doc0,
                       other>>

\* the values a caller writes into its vector
Writes == {V(0)}

\* the caller's in-place write t[i] = x on the vector it last handed to
\* set_parameters; an array that shares the vector's memory shows the write
theta_write(i, x) ==
    /\ op = "set_parameters"
    /\ i \in DOMAIN arg
    /\ arg' = [arg EXCEPT ![i] = x]
    /\ params' = [k \in DOMAIN params |->
                     IF k \in views THEN arg' ELSE params[k]]
    /\ op' = "theta_write"
    /\ res' = "ok"
    /\ ret' = <<>>
    /\ UNCHANGED <<config_list, run_params, _config_dict, theta_index,
                   ndim, initial_theta, obs, ndof, kwargs, doc, doc0,
                   views, other>>

\* ---------------------------------------------------------- prior_product
\* prior_product(t): no length check; lnp_prior = 0, then the loop over
\* theta_index, whose body looks up the entry's prior_function and slices
\* theta[start:stop], stop being bound nowhere
prior_product_result(ti, cd, t) ==
    IF DOMAIN ti = {} THEN [err |-> "ok", ret |-> <<V(0)>>]
    ELSE IF \E k \in DOMAIN ti : "prior_function" \notin DOMAIN cd[k]
    THEN [err |-> "KeyError", ret |-> <<>>]
    ELSE [err |-> "NameError", ret |-> <<>>]

prior_product(t) ==
    LET r == prior_product_result(theta_index, _config_dict, t)
    IN  /\ op' = "prior_product"
        /\ arg' = t
        /\ res' = r.err
        /\ ret' = r.ret
        /\ UNCHANGED <<config_list, run_params, _config_dict, params,
                       theta_index, ndim, initial_theta, obs, ndof, kwargs,
                       doc, doc0, views, other>>


\* ---------------------------------------------------------------- add_obs
\* the observation bundles a caller passes: spectrum and maggies present or
\* None, mask and phot_mask given by their sums (two good spectral points,
\* one good photometric point)
ObsSet ==
    [spectrum : {"None", "flux"}, mask : {2},
     maggies : {"None", "flux"}, phot_mask : {1}]

\* logify_data(spectrum, unc, mask) of bsfh.datautils: the spectrum and its
\* uncertainty go to log space and the mask may lose points
logify_data(o) ==
    {[o EXCEPT !.spectrum = "lnflux", !.mask = m] : m \in {o.mask - 1, o.mask}}

\* the position of the first descriptor named par, 0 when there is none
IndexOf(cl, par) ==
    LET at == {i \in DOMAIN cl : HasName(cl[i]) /\ cl[i].name = par}
    IN  IF at = {} THEN 0
        ELSE CHOOSE i \in at : \A j \in at : i <= j

\* func(x) for the rescale functions add_obs passes: "log" is the lambda of
\* line 136, lambda x: np.log(x).  (The lambda of line 128 is never reached:
\* line 125 raises first.)
apply_func(func, x) == CASE func = "log" -> np_log(x)

\* rescale_parameter(par, func): func on the descriptor's init, then on every
\* value of its prior_args; the exception it ends with and config_list as
\* it leaves it
rescale_parameter(cl, par, func) ==
    IF \E i \in DOMAIN cl : ~HasName(cl[i])
    THEN [err |-> "KeyError", config_list |-> cl]
    ELSE LET ind == IndexOf(cl, par)
         IN  IF ind = 0
             THEN [err |-> "ValueError", config_list |-> cl]
             ELSE LET c1 == [cl EXCEPT ![ind].init = apply_func(func, @)]
                      pa == cl[ind].prior_args
                  IN  IF pa = NoneVal
                      THEN [err |-> "AttributeError", config_list |-> c1]
                      ELSE [err |-> "ok",
                            config_list |->
                                [c1 EXCEPT ![ind].prior_args =
                                    [k \in DOMAIN pa |-> apply_func(func, pa[k])]]]

\* how often np.log has been stacked on the init of descriptor par
LnDepth(cl, par) ==
    IF IndexOf(cl, par) = 0 THEN 0 ELSE cl[IndexOf(cl, par)].init.v[1].ln

\* add_obs(o).  Every path ends in an exception before the closing
\* self.configure() of line 144:
\*   no spectrum                 NameError at line 138 (model)
\*   spectrum, normalize         NameError at line 125 (kwargs)
\*   spectrum, logify only       logify_data, rescale_parameter(np.log), then
\*                               NameError at line 141/143 (model) unless
\*                               rescale_parameter raised first
\*   spectrum, neither           NameError at line 141/143 (model)
add_obs(o) ==
    LET spec   == o.spectrum # "None"
        logify == Get(run_params, "logify_spectrum", TRUE)
        norm   == Get(run_params, "normalize_spectrum", TRUE)
        dof    == IF spec THEN o.mask - ndim ELSE 0 - ndim
    IN  /\ ndof' = <<dof>>
        /\ op' = "add_obs"
        /\ arg' = <<>>
        /\ ret' = <<>>
        /\ \/ /\ ~spec
              /\ obs' = o
              /\ res' = "NameError"
              /\ UNCHANGED config_list
           \/ /\ spec /\ norm
              /\ obs' = o
              /\ res' = "NameError"
              /\ UNCHANGED config_list
           \/ /\ spec /\ ~norm /\ logify
              /\ LnDepth(config_list, "spec_norm") < MaxLn
              /\ obs' \in logify_data(o)
              /\ LET r == rescale_parameter(config_list, "spec_norm", "log")
                 IN  /\ config_list' = r.config_list
                     /\ res' = IF r.err = "ok" THEN "NameError" ELSE r.err
           \/ /\ spec /\ ~norm /\ ~logify
              /\ obs' = o
              /\ res' = "NameError"
              /\ UNCHANGED config_list
        /\ UNCHANGED <<run_params, _config_dict, params, theta_index, ndim,
                       initial_theta, kwargs, doc, doc0, views, other>>

\* ----------------------------------------------------------- theta_labels
\* a label: the (mapped) name and the 1-based suffix, 0 for no suffix
Label(name, suffix) == [name |-> name, suffix |-> suffix]

DefaultNameMap == [amplitudes |-> "A", emission_luminosity |-> "eline"]

NameMaps == {DefaultNameMap, [a |-> "alpha"], EmptyDict}

\* the (index, label) pairs the loop of theta_labels collects
theta_label_items(ti, name_map) ==
    UNION {{<<ti[p][1] + i,
              Label(Get(name_map, p, p),
                    IF ti[p][2] - ti[p][1] = 1 THEN 0 ELSE i + 1)>> :
               i \in 0..(ti[p][2] - ti[p][1] - 1)} : p \in DOMAIN ti}

RECURSIVE SortedLabels(_)
\* [l for (i, l) in sorted(zip(index, label))]
SortedLabels(items) ==
    IF items = {} THEN <<>>
    ELSE LET m == CHOOSE x \in items : \A y \in items : x[1] <= y[1]
         IN  <<m[2]>> \o SortedLabels(items \ {m})

\* theta_labels walking the whole registry instead of theta_index, one
\* label per registry entry
theta_labels_registry(ti, name_map) ==
    SortedLabels({<<0, Label(Get(name_map, p, p), 0)>> :
                     p \in DOMAIN _config_dict})

theta_labels_result(ti, name_map) ==
    SortedLabels(theta_label_items(ti, name_map))

theta_labels(name_map) ==
    /\ op' = "theta_labels"
    /\ arg' = name_map
    /\ res' = "ok"
    /\ ret' = theta_labels_result(theta_index, name_map)
    /\ UNCHANGED <<config_list, run_params, _config_dict, params,
                   theta_index, ndim, initial_theta, obs, ndof, kwargs,
                   doc, doc0, views, other>>

\* ------------------------------------------------------------------- spec
Next ==
    \/ \E kw \in KwargsSet : configure(kw)
    \/ \E t \in Thetas : set_parameters(t)
    \/ \E i \in 1..MaxTheta, x \in Writes : theta_write(i, x)
    \/ \E t \in Thetas : prior_product(t)
    \/ \E o \in ObsSet : add_obs(o)
    \/ \E nm \in NameMaps : theta_labels(nm)

Spec == Init /\ [][Next]_vars

\* ---------------------------------------------------------- two instances
\* the descriptor list of the second instance, built apart from the first
OtherList == <<Descriptor("b", 1, FALSE, Scalar(5), "None", NoneVal)>>

\* an attribute lookup inst.params: no method ever assigns self.params, the
\* methods only store items into it, so on every instance the lookup falls
\* through to the one dict of the class
params_of(inst) == params

\* A = ProspectrParams(rp, cl), then B = ProspectrParams({}, OtherList): each
\* __init__ runs configure, B's on the params dict A's has already filled.
\* The methods of Next are then called on A.
InitTwo ==
    \E cl \in ConfigLists, rp \in RunParamSets :
        LET a == configure_result(cl, EmptyDict, EmptyDict, ClassDefaults)
            b == configure_result(OtherList, a.params, EmptyDict,
                                  ClassDefaults)
        IN  /\ run_params = rp
            /\ config_list = a.config_list
            /\ _config_dict = a._config_dict
            /\ theta_index = a.theta_index
            /\ ndim = a.ndim
            /\ initial_theta = a.initial_theta
            /\ params = b.params
            /\ other = <<[config_list |-> b.config_list,
                          run_params |-> EmptyDict,
                          _config_dict |-> b._config_dict,
                          theta_index |-> b.theta_index,
                          ndim |-> b.ndim,
                          initial_theta |-> b.initial_theta,
                          obs |-> EmptyDict]>>
            /\ obs = EmptyDict
            /\ ndof = <<>>
            /\ kwargs = EmptyDict
            /\ op = "__init__"
            /\ arg = <<>>
            /\ res = b.err
            /\ ret = <<>>
            /\ doc = <<>>
            /\ doc0 = <<>>
            /\ views = {}

SpecTwo == InitTwo /\ [][Next]_vars


\* ========================================================== serialization
\* a callable: the module that defines it and its func_name
Fn(mod, name) == [module |-> mod, func_name |-> name]

\* a string-valued dict entry that may also be None
Name(s) == [str |-> s]

\* priors.__dict__: the prior functions by name
PriorRegistry ==
    [tophat |-> Fn("priors", "tophat"), normal |-> Fn("priors", "normal")]

\* sedpy.attenuation.__dict__: the dust curves by name
AttenuationRegistry == [calzetti |-> Fn("attenuation", "calzetti")]

Values(d) == {d[k] : k \in DOMAIN d}

\* p.pop(k, None)
DictPop(p, k) == [f \in DOMAIN p \ {k} |-> p[f]]

\* p[k] = v
DictSet(p, k, v) == [f \in DOMAIN p \cup {k} |-> IF f = k THEN v ELSE p[f]]

\* the descriptors a caller writes: "a" with a prior_function that is absent,
\* None, registered or the caller's own, and a prior_function_name that is
\* absent, None or a name; "dust_curve" with a number, a registered or an
\* unregistered dust curve as init
DocDescriptors ==
    {[f \in {"name", "init"} \cup pf[1] \cup pn[1] |->
         CASE f = "name" -> "a"
           [] f = "init" -> Scalar(1)
           [] f = "prior_function" -> pf[2]
           [] f = "prior_function_name" -> pn[2]] :
        pf \in {<<{}, NoneVal>>} \cup
               {<<{"prior_function"}, c>> :
                   c \in {NoneVal, Fn("priors", "tophat"),
                          Fn("priors", "normal"), Fn("user", "myprior")}},
        pn \in {<<{}, NoneVal>>} \cup
               {<<{"prior_function_name"}, c>> :
                   c \in {NoneVal, Name("tophat")}}}
    \cup
    {[f \in {"name", "init"} \cup pf[1] |->
         CASE f = "name" -> "dust_curve"
           [] f = "init" -> init
           [] f = "prior_function" -> pf[2]] :
        pf \in {<<{}, NoneVal>>, <<{"prior_function"}, Fn("priors", "tophat")>>},
        init \in {Scalar(1), Fn("attenuation", "calzetti"),
                  Fn("user", "mycurve")}}

\* the lists handed to write_plist
DocLists == UNION {[1..n -> DocDescriptors] : n \in 1..MaxDoc}

\* functions_to_names that forgets the name it has just looked up: it drops
\* prior_function_name together with prior_function
functions_to_names_drop(p) ==
    LET p2 == DictPop(DictPop(p, "prior_function_name"), "prior_function")
    IN  IF ~HasName(p2) THEN [err |-> "KeyError", p |-> p2]
        ELSE IF p2.name = "dust_curve"
        THEN LET df == Get(p2, "init", NoneVal)
             IN  IF df # NoneVal /\ df \in Values(AttenuationRegistry)
                 THEN [err |-> "ok",
                       p |-> DictPop(DictSet(p2, "dust_curve_name",
                                             Name(df.func_name)), "init")]
                 ELSE [err |-> "ok", p |-> p2]
        ELSE [err |-> "ok", p |-> p2]

\* functions_to_names(p): the descriptor as it leaves it, and KeyError when
\* p has no 'name' (raised after the prior fields were replaced)
functions_to_names(p) ==
    LET pf == Get(p, "prior_function", NoneVal)
        cond == pf \in Values(PriorRegistry) /\ pf # NoneVal
        p1 == IF cond
              THEN DictSet(p, "prior_function_name", Name(pf.func_name))
              ELSE DictPop(p, "prior_function_name")
        p2 == DictPop(p1, "prior_function")
    IN  IF ~HasName(p2) THEN [err |-> "KeyError", p |-> p2]
        ELSE IF p2.name = "dust_curve"
        THEN LET df == Get(p2, "init", NoneVal)
             IN  IF df # NoneVal /\ df \in Values(AttenuationRegistry)
                 THEN [err |-> "ok",
                       p |-> DictPop(DictSet(p2, "dust_curve_name",
                                             Name(df.func_name)), "init")]
                 ELSE [err |-> "ok", p |-> p2]
        ELSE [err |-> "ok", p |-> p2]

\* registry[key] for a key that may be None or unknown
Lookup(registry, key) ==
    IF key = NoneVal \/ key.str \notin DOMAIN registry
    THEN [err |-> "KeyError", v |-> NoneVal]
    ELSE [err |-> "ok", v |-> registry[key.str]]

\* names_to_functions(p): the descriptor as it leaves it, and KeyError when
\* a stored name is not in its registry
names_to_functions(p) ==
    LET dc == IF "dust_curve_name" \in DOMAIN p
              THEN Lookup(AttenuationRegistry, p.dust_curve_name)
              ELSE [err |-> "ok", v |-> NoneVal]
        p1 == IF "dust_curve_name" \in DOMAIN p /\ dc.err = "ok"
              THEN DictSet(p, "init", dc.v) ELSE p
    IN  IF dc.err # "ok" THEN [err |-> dc.err, p |-> p1]
        ELSE IF "prior_function_name" \in DOMAIN p1
        THEN LET pr == Lookup(PriorRegistry, p1.prior_function_name)
             IN  IF pr.err # "ok" THEN [err |-> pr.err, p |-> p1]
                 ELSE [err |-> "ok", p |-> DictSet(p1, "prior_function", pr.v)]
        ELSE [err |-> "ok",
              p |-> DictSet(p1, "prior_function",
                            Get(p1, "prior_function", NoneVal))]

\* json.dump accepts a descriptor unless a callable is left in it
IsCallable(v) == "func_name" \in DOMAIN v

JsonOk(p) ==
    /\ ~("init" \in DOMAIN p /\ IsCallable(p.init))
    /\ ~("prior_function" \in DOMAIN p /\ IsCallable(p.prior_function))

\* a loop "for p in l: p = func(p)" given each element's outcome rs[i]: it
\* stops at the first element that raises; the exception and the list as the
\* loop leaves it (the elements are changed in place)
LoopInPlace(l, rs) ==
    LET bad == {i \in DOMAIN l : rs[i].err # "ok"}
        j   == IF bad = {} THEN Len(l) + 1
               ELSE CHOOSE i \in bad : \A k \in bad : i <= k
    IN  [err |-> IF bad = {} THEN "ok" ELSE rs[j].err,
         l   |-> [i \in DOMAIN l |-> IF i <= j THEN rs[i].p ELSE l[i]]]

\* a fresh process holding a descriptor list to write
InitPlist ==
    /\ doc \in DocLists
    /\ doc0 = doc
    /\ config_list = <<>>
    /\ run_params = EmptyDict
    /\ _config_dict = ClassDefaults._config_dict
    /\ params = EmptyDict
    /\ theta_index = ClassDefaults.theta_index
    /\ ndim = ClassDefaults.ndim
    /\ initial_theta = ClassDefaults.initial_theta
    /\ obs = EmptyDict
    /\ ndof = <<>>
    /\ kwargs = EmptyDict
    /\ views = {}
    /\ other = <<>>
    /\ op = "plist"
    /\ arg = <<>>
    /\ res = "ok"
    /\ ret = <<>>

\* write_plist(plist, runpars, filename): functions_to_names on every
\* descriptor, in place, then json.dump
write_plist ==
    LET r == LoopInPlace(doc, [i \in DOMAIN doc |-> functions_to_names(doc[i])])
    IN  /\ doc0' = doc
        /\ doc' = r.l
        /\ op' = "write_plist"
        /\ arg' = <<>>
        /\ res' = IF r.err # "ok" THEN r.err
                  ELSE IF \E i \in DOMAIN r.l : ~JsonOk(r.l[i]) THEN "TypeError"
                  ELSE "ok"
        /\ ret' = <<>>
        /\ UNCHANGED <<config_list, run_params, _config_dict, params,
                       theta_index, ndim, initial_theta, obs, ndof, kwargs,
                       views, other>>

\* read_plist(filename, raw_json) on the file the last write_plist left:
\* json.load, then names_to_functions on every descriptor unless raw_json
read_plist(raw_json) ==
    /\ op = "write_plist" /\ res = "ok"
    /\ LET r == IF raw_json THEN [err |-> "ok", l |-> doc]
                ELSE LoopInPlace(doc, [i \in DOMAIN doc |->
                                          names_to_functions(doc[i])])
       IN  /\ doc' = IF r.err = "ok" THEN r.l ELSE doc
           /\ res' = r.err
    /\ op' = "read_plist"
    /\ arg' = <<raw_json>>
    /\ ret' = <<>>
    /\ UNCHANGED <<config_list, run_params, _config_dict, params,
                   theta_index, ndim, initial_theta, obs, ndof, kwargs, doc0,
                   views, other>>

NextPlist ==
    \/ write_plist
    \/ \E raw \in BOOLEAN : read_plist(raw)

SpecPlist == InitPlist /\ [][NextPlist]_vars

\* a caller converting the descriptor list it holds: plist_to_pdict(doc),
\* the list kept in doc as the call leaves it, the registry returned in ret
to_pdict ==
    LET r == plist_to_pdict(doc)
    IN  /\ doc0' = doc
        /\ doc' = r.inplist
        /\ op' = "plist_to_pdict"
        /\ arg' = <<>>
        /\ res' = r.err
        /\ ret' = IF r.err = "ok" THEN <<r.pdict>> ELSE <<>>
        /\ UNCHANGED <<config_list, run_params, _config_dict, params,
                       theta_index, ndim, initial_theta, obs, ndof, kwargs,
                       views, other>>

NextPdict == to_pdict

SpecPdict == InitPlist /\ [][NextPdict]_vars


\* ================================================================ claims
\* the free and the fixed descriptors of a list, and of a registry
FreeOf(cl) == {i \in DOMAIN cl : cl[i].isfree}

RECURSIVE SumN(_, _)
SumN(cl, is) ==
    IF is = {} THEN 0
    ELSE LET i == CHOOSE i \in is : TRUE IN cl[i].N + SumN(cl, is \ {i})

\* the dimension of the model a descriptor list describes: the total length
\* of its free parameters
ModelDim(cl) == SumN(cl, FreeOf(cl))

FixedNames(cd) == {k \in DOMAIN cd : ~cd[k].isfree}

\* the value the last configure call gave parameter k
ConfiguredValue(k) ==
    IF k \in DOMAIN kwargs THEN np_atleast_1d(kwargs[k])
    ELSE np_atleast_1d(_config_dict[k].init)

\* C1 (round trip): for a model and a vector t as long as the model's free
\* dimension, set_parameters(t) succeeds and the theta property then reads
\* exactly t
C1_RoundTrip ==
    (op = "set_parameters" /\ Len(arg) = ModelDim(config_list))
        => (res = "ok" /\ theta = arg)

C3_IndexCompleteness ==
    (op \in {"__init__", "configure"} /\ res = "ok") =>
        /\ DOMAIN theta_index = {config_list[i].name : i \in FreeOf(config_list)}
        /\ \A i \in FreeOf(config_list) :
              LET k == config_list[i].name
              IN  theta_index[k][2] - theta_index[k][1] = config_list[i].N
        /\ ndim = ModelDim(config_list)

\* C4 (fixed-parameter invariance): a set_parameters call, whatever its
\* vector, leaves the params entry of every fixed parameter as it was, and
\* that entry is still the value the last configure gave it
C4_FixedInvariance ==
    [][op' = "set_parameters" =>
          \A k \in FixedNames(_config_dict) :
              /\ k \in DOMAIN params'
              /\ params'[k] = params[k]
              /\ params'[k] = ConfiguredValue(k)]_vars

\* set_parameters has accepted a vector on a model with a fixed parameter
\* that configure had overridden
C4_Witness ==
    /\ op = "set_parameters" /\ res = "ok"
    /\ "b" \in FixedNames(_config_dict)
    /\ "b" \in DOMAIN kwargs
    /\ params["b"] = <<V(8)>>

\* C5 (idempotent configure): a configure call that directly follows a
\* successful configure with the same descriptor list and the same overrides
\* succeeds and leaves params, theta_index, ndim, initial_theta and the
\* registry exactly as the first call left them
C5_IdempotentConfigure ==
    [][(op \in {"__init__", "configure"} /\ res = "ok"
        /\ op' = "configure" /\ kwargs' = kwargs) =>
          /\ res' = "ok"
          /\ config_list' = config_list
          /\ _config_dict' = _config_dict
          /\ params' = params
          /\ theta_index' = theta_index
          /\ ndim' = ndim
          /\ initial_theta' = initial_theta]_vars

\* configure has run with an override on a model with descriptors
C5_Witness ==
    /\ op = "configure" /\ res = "ok"
    /\ kwargs # EmptyDict
    /\ DOMAIN _config_dict # {}

\* x / scale on an unlogged number, in lowest terms for the scales used
Divide(v, scale) ==
    IF v.x % scale = 0 THEN [v EXCEPT !.x = @ \div scale]
    ELSE [v EXCEPT !.den = @ * scale]

\* np.log(val / scale)
LogOfRatio(val, scale) ==
    [val EXCEPT !.v = [i \in DOMAIN val.v |-> Log(Divide(val.v[i], scale))]]

\* the scales the external normalize may return
Scales == {1, 2}

\* C6 (rescale composition): add_obs with a spectrum, normalize_spectrum and
\* logify_spectrum both true, on a list that has spec_norm with prior_args,
\* completes and leaves spec_norm's init and each of its prior_args equal to
\* log(v_before / scale) for the scale normalize returned, and params holds
\* the rescaled init
C6_RescaleComposition ==
    [][(/\ op' = "add_obs"
        /\ obs'.spectrum # "None"
        /\ Get(run_params, "normalize_spectrum", TRUE)
        /\ Get(run_params, "logify_spectrum", TRUE)
        /\ IndexOf(config_list, "spec_norm") # 0
        /\ config_list[IndexOf(config_list, "spec_norm")].prior_args # NoneVal)
        => \E scale \in Scales :
              LET ind == IndexOf(config_list, "spec_norm")
                  d0  == config_list[ind]
                  d1  == config_list'[ind]
              IN  /\ res' = "ok"
                  /\ d1.init = LogOfRatio(d0.init, scale)
                  /\ d1.prior_args =
                        [k \in DOMAIN d0.prior_args |->
                            LogOfRatio(d0.prior_args[k], scale)]
                  /\ params'["spec_norm"] = np_atleast_1d(d1.init)]_vars

\* C7 (dimension mismatch): prior_product on a vector whose length is not
\* ndim fails and returns nothing
C7_DimensionMismatch ==
    (op = "prior_product" /\ Len(arg) # ndim) => (res # "ok" /\ ret = <<>>)

\* C8 (duplicate ingestion guarded): over the life of an instance the
\* rescale of spec_norm is applied at most once, a second add_obs being
\* refused
C8_RescaleAtMostOnce == LnDepth(config_list, "spec_norm") <= 1

HasRegisteredPrior(p) ==
    /\ "prior_function" \in DOMAIN p
    /\ p.prior_function \in Values(PriorRegistry)

\* p without the fields ks
Without(p, ks) == [f \in DOMAIN p \ ks |-> p[f]]

Attributes ==
    <<obs, ndof, config_list, theta_index, ndim, params, initial_theta>>

\* C11 (no partial mutation on failure): a configure or add_obs call that
\* ends in an exception leaves obs, ndof, the descriptor list, theta_index,
\* ndim, params and initial_theta exactly as they were before the call
C11_NoPartialMutation ==
    [][(op' \in {"configure", "add_obs"} /\ res' # "ok")
          => UNCHANGED Attributes]_vars

\* two positions of a descriptor list that carry the same name
HasDuplicate(l) ==
    \E i, j \in DOMAIN l :
        i < j /\ HasName(l[i]) /\ HasName(l[j]) /\ l[i].name = l[j].name

\* C12 (duplicate names rejected): plist_to_pdict on a list in which two
\* descriptors share a name ends in an error and returns no registry
C12_DuplicateRejected ==
    (op = "plist_to_pdict" /\ HasDuplicate(doc0))
        => (res # "ok" /\ ret = <<>>)

\* C13 (unknown override rejected): a configure call with an override whose
\* name is not in the registry ends in an error and does not add that name
\* to params
C13_UnknownOverride ==
    [][op' = "configure" =>
          \A k \in DOMAIN kwargs' \ DOMAIN _config_dict' :
              /\ res' # "ok"
              /\ k \notin DOMAIN params => k \notin DOMAIN params']_vars


\* C14 (instance isolation): with a second instance B built from its own
\* descriptor list, a configure, set_parameters or add_obs call on A leaves
\* B's params, theta_index, registry, obs and theta unchanged
C14_InstanceIsolation ==
    [][(other # <<>> /\ op' \in {"configure", "set_parameters", "add_obs"})
          => /\ other' = other
             /\ params_of(other[1])' = params_of(other[1])
             /\ theta_of(params_of(other[1])', other[1].theta_index,
                         other[1].ndim)
                  = theta_of(params_of(other[1]), other[1].theta_index,
                             other[1].ndim)]_vars

\* C15 (configure fully replaces the state): right after a configure call
\* whose overrides all name registry entries, the names of params are the
\* names of the registry and every value is the descriptor's init or that
\* call's override, nothing written earlier surviving
C15_ConfigureReplaces ==
    (op \in {"__init__", "configure"} /\ res = "ok" /\ other = <<>>
     /\ DOMAIN kwargs \subseteq DOMAIN _config_dict)
        => /\ DOMAIN params = DOMAIN _config_dict
           /\ \A k \in DOMAIN params : params[k] = ConfiguredValue(k)

\* the sum of a mask that is present, 0 for the mask of an absent field
MaskSum(field, n) == IF field # "None" THEN n ELSE 0

\* C16 (degrees of freedom): add_obs completes for each of the four
\* combinations of spectrum and maggies present or absent, and leaves
\* ndof = -ndim + sum(mask) if the spectrum is present
\*              + sum(phot_mask) if maggies is present
\* (stated for the calls that leave the bundle's mask as it was given)
C16_DegreesOfFreedom ==
    [][(op' = "add_obs" /\ obs'.spectrum # "lnflux") =>
          /\ res' = "ok"
          /\ ndof' = <<MaskSum(obs'.spectrum, obs'.mask)
                       + MaskSum(obs'.maggies, obs'.phot_mask) - ndim'>>]_vars

\* C17 (state value length): after configure, for every registry name the
\* params array is as long as the descriptor's N
C17_ValueLength ==
    (op \in {"__init__", "configure"} /\ res = "ok" /\ other = <<>>) =>
        \A k \in DOMAIN _config_dict :
            k \in DOMAIN params /\ Len(params[k]) = _config_dict[k].N


C19_CanonicalOrder ==
    (op \in {"__init__", "configure"} /\ res = "ok") =>
        /\ \A i \in FreeOf(config_list) :
              config_list[i].name \in DOMAIN theta_index
        /\ \A i, j \in FreeOf(config_list) :
              i < j => theta_index[config_list[i].name][1]
                         < theta_index[config_list[j].name][1]
        /\ \A i \in FreeOf(config_list) :
              (\A j \in FreeOf(config_list) : i <= j)
                  => theta_index[config_list[i].name][1] = 0

\* where the block of free descriptor i starts in declaration order
StartOf(cl, i) == SumN(cl, {j \in FreeOf(cl) : j < i})

\* the prior evaluations the claim of C20 asks for: one per free descriptor,
\* its prior_function on its block of t with its prior_args
PriorCalls(cl, t) ==
    {[prior_function |-> cl[i].prior_function,
      theta |-> SubSeq(t, StartOf(cl, i) + 1, StartOf(cl, i) + cl[i].N),
      prior_args |-> cl[i].prior_args] : i \in FreeOf(cl)}

\* the sum of the summed results of a set of prior evaluations, the priors
\* being external: 0 for no evaluation, else the evaluations to add up
SumOf(calls) == IF calls = {} THEN V(0) ELSE [sum |-> calls]

\* C20 (prior sum): for a vector as long as the model's free dimension,
\* prior_product returns the sum, over the free parameters, of the summed
\* prior of the parameter's block of theta under its prior_args, each
\* parameter contributing exactly once, and it leaves params, theta_index
\* and the registry unchanged
C20_PriorSum ==
    [][(op' = "prior_product" /\ Len(arg') = ModelDim(config_list)) =>
          /\ res' = "ok"
          /\ ret' = <<SumOf(PriorCalls(config_list, arg'))>>
          /\ UNCHANGED <<params, theta_index, _config_dict>>]_vars


====
